---- MODULE Spec2Model ----
(***************************************************************************)
(* The five analysis scripts of gang-visualization (colors.py,             *)
(* gang_colors.py, race.py, heatmap.py, escalation.py) as one state        *)
(* machine: load -> required-column check -> clean -> aggregate -> render. *)
(* Strings are sequences of one-character strings so that strip, upper,    *)
(* replace and slicing are computed, not assumed.  A cell of a data frame  *)
(* is a record [t, v]: t is "nan" (empty spreadsheet cell / NaN / NaT),    *)
(* "none" (Python None, only produced by the synthetic fallbacks), "str"   *)
(* (v is the text), "num" (v is the text str() gives for the number) or    *)
(* "date" (a parsed timestamp; v is its year, the only part that is read). *)
(* astype(str) is that of pandas 1.x/2.x, which the scripts' own           *)
(* replace('nan', ...) calls assume: NaN becomes "nan", None becomes "None".*)
(***************************************************************************)
EXTENDS Integers, Sequences, FiniteSets, TLC

\* ------------------------------------------------------------------ bounds
\* Rows of a dataset in the single-script specifications.
MaxRows == 2
\* Rows of a dataset in the specification of heatmap.py.
MaxRowsGeo == 3
\* Rows of a dataset in the all-scripts specification Spec.
MaxRowsAll == 1
\* the largest Total_Records of a code, where the legend tiers are checked
\* on totals that no sheet of MaxRowsGeo records gives
MaxTotal == 510

\* ------------------------------------------------------------- characters
Digits == <<"0", "1", "2", "3", "4", "5", "6", "7", "8", "9">>
Uppers == <<"A", "B", "C", "D", "E", "F", "G", "H", "I", "J", "K", "L", "M",
            "N", "O", "P", "Q", "R", "S", "T", "U", "V", "W", "X", "Y", "Z">>
Lowers == <<"a", "b", "c", "d", "e", "f", "g", "h", "i", "j", "k", "l", "m",
            "n", "o", "p", "q", "r", "s", "t", "u", "v", "w", "x", "y", "z">>
\* The characters of the model in code-point order.
Alphabet == <<" ", "-", ".", "/">> \o Digits \o Uppers \o Lowers

Ord(c) == CHOOSE i \in 1..Len(Alphabet) : Alphabet[i] = c

IsLower(c) == \E i \in 1..Len(Lowers) : Lowers[i] = c

\* str.upper() on one character
UpperChar(c) == IF IsLower(c) THEN Uppers[CHOOSE i \in 1..Len(Lowers) : Lowers[i] = c] ELSE c

IsSpace(c) == c = " "

\* ---------------------------------------------------------------- strings
StrUpper(s) == [i \in 1..Len(s) |-> UpperChar(s[i])]

RECURSIVE LStrip(_)
LStrip(s) == IF s # <<>> /\ IsSpace(Head(s)) THEN LStrip(Tail(s)) ELSE s

RECURSIVE RStrip(_)
RStrip(s) == IF s # <<>> /\ IsSpace(s[Len(s)]) THEN RStrip(SubSeq(s, 1, Len(s) - 1)) ELSE s

\* str.strip()
StrStrip(s) == RStrip(LStrip(s))

\* s[:n]
StrPrefix(s, n) == SubSeq(s, 1, IF Len(s) < n THEN Len(s) ELSE n)

\* Series.str.replace(pat, repl, case=False): every non-overlapping
\* occurrence of pat, compared without case, left to right.
RECURSIVE StrReplaceNoCase(_, _, _)
StrReplaceNoCase(s, pat, repl) ==
    IF Len(s) < Len(pat) THEN s
    ELSE IF StrUpper(SubSeq(s, 1, Len(pat))) = StrUpper(pat)
         THEN repl \o StrReplaceNoCase(SubSeq(s, Len(pat) + 1, Len(s)), pat, repl)
         ELSE <<Head(s)>> \o StrReplaceNoCase(Tail(s), pat, repl)

\* Series.str.replace(r'\..*', '', regex=True): cut at the first "."
RECURSIVE StrCutAtDot(_)
StrCutAtDot(s) ==
    IF s = <<>> \/ Head(s) = "." THEN <<>> ELSE <<Head(s)>> \o StrCutAtDot(Tail(s))

\* lexicographic order by code point, as Python compares str
RECURSIVE StrLess(_, _)
StrLess(a, b) ==
    IF b = <<>> THEN FALSE
    ELSE IF a = <<>> THEN TRUE
    ELSE IF Head(a) = Head(b) THEN StrLess(Tail(a), Tail(b))
    ELSE Ord(Head(a)) < Ord(Head(b))

\* ------------------------------------------------------------------ cells
NaN == [t |-> "nan", v |-> <<>>]
None == [t |-> "none", v |-> <<>>]
Str(s) == [t |-> "str", v |-> s]
Num(s) == [t |-> "num", v |-> s]

sY == <<"Y">>
sN == <<"N">>
sNULL == <<"N", "U", "L", "L">>
sNAN == <<"N", "A", "N">>
sNA == <<"N", "/", "A">>
snan == <<"n", "a", "n">>
sNone == <<"N", "o", "n", "e">>
sUnknown == <<"U", "n", "k", "n", "o", "w", "n">>

\* Series.isna() / notna()
IsNa(c) == c.t \in {"nan", "none"}

\* Series.astype(str): NaN becomes "nan", None becomes "None"
AsTypeStr(c) == IF c.t = "nan" THEN Str(snan)
                ELSE IF c.t = "none" THEN Str(sNone)
                ELSE Str(c.v)

\* Series.fillna(value)
FillNa(c, value) == IF IsNa(c) THEN Str(value) ELSE c

\* Series.replace(old, new): whole-value match
Replace(c, old, new) == IF c = Str(old) THEN Str(new) ELSE c

\* ------------------------------------------------------------ data frames
\* A frame is [columns |-> set of column names, rows |-> sequence of rows];
\* a row is a function from the column names to cells.
EmptyFrame == [columns |-> {}, rows |-> <<>>]

\* df[mask]: the rows whose position is in keep, in their order
RECURSIVE KeepRows(_, _)
KeepRows(rows, keep) ==
    IF rows = <<>> THEN <<>>
    ELSE LET rest == KeepRows(SubSeq(rows, 1, Len(rows) - 1), keep)
         IN IF Len(rows) \in keep THEN Append(rest, rows[Len(rows)]) ELSE rest

\* df[col] = series (adds the column when it is new)
WithColumn(df, col, series) ==
    [columns |-> df.columns \cup {col},
     rows |-> [i \in 1..Len(df.rows) |->
                 [c \in df.columns \cup {col} |->
                    IF c = col THEN series[i] ELSE df.rows[i][c]]]]

\* the values of a column, as a set
Values(df, col) == {df.rows[i][col] : i \in 1..Len(df.rows)}

\* labels in sorted order, as pandas orders the index of a crosstab/groupby
RECURSIVE SortLabels(_)
SortLabels(S) ==
    IF S = {} THEN <<>>
    ELSE LET m == CHOOSE x \in S : \A y \in S : x = y \/ StrLess(x.v, y.v)
         IN <<m>> \o SortLabels(S \ {m})

SeqToSet(q) == {q[i] : i \in 1..Len(q)}

\* labels in the order in which the rows first show them, where pd.crosstab
\* sorts them
CrosstabAsFound(df, r, c) ==
    LET First(col, x) == CHOOSE i \in 1..Len(df.rows) :
                             /\ df.rows[i][col] = x
                             /\ \A j \in 1..(i - 1) : df.rows[j][col] # x
        AsFound(col) == CHOOSE q \in [1..Cardinality(Values(df, col)) -> Values(df, col)] :
                            \A a, b \in DOMAIN q : a < b => First(col, q[a]) < First(col, q[b])
    IN [index |-> AsFound(r),
        columns |-> AsFound(c),
        counts |-> [p \in Values(df, r) \X Values(df, c) |->
                      Cardinality({i \in 1..Len(df.rows) :
                                     df.rows[i][r] = p[1] /\ df.rows[i][c] = p[2]})]]

\* pd.crosstab(df[r], df[c]): sorted labels that occur, counts of the pairs
Crosstab(df, r, c) ==
    [index |-> SortLabels(Values(df, r)),
     columns |-> SortLabels(Values(df, c)),
     counts |-> [p \in Values(df, r) \X Values(df, c) |->
                   Cardinality({i \in 1..Len(df.rows) :
                                  df.rows[i][r] = p[1] /\ df.rows[i][c] = p[2]})]]

EmptyTable == [index |-> <<>>, columns |-> <<>>, counts |-> <<>>]

\* DataFrame.reindex(index=labels, fill_value=fill)
Reindex(t, labels, fill) ==
    [index |-> labels,
     columns |-> t.columns,
     counts |-> [p \in SeqToSet(labels) \X SeqToSet(t.columns) |->
                   IF p \in DOMAIN t.counts THEN t.counts[p] ELSE fill]]

\* t[c] = value: a new column is appended after the others
SetColumn(t, c, value) ==
    [index |-> t.index,
     columns |-> IF c \in SeqToSet(t.columns) THEN t.columns ELSE Append(t.columns, c),
     counts |-> [p \in SeqToSet(t.index) \X (SeqToSet(t.columns) \cup {c}) |->
                   IF p[2] = c THEN value ELSE t.counts[p]]]

\* t[labels]: the listed columns, in the listed order
SelectColumns(t, labels) ==
    [index |-> t.index,
     columns |-> labels,
     counts |-> [p \in SeqToSet(t.index) \X SeqToSet(labels) |-> t.counts[p]]]

RECURSIVE SumSeq(_)
SumSeq(q) == IF q = <<>> THEN 0 ELSE Head(q) + SumSeq(Tail(q))

\* ---------------------------------------------------------- configuration
column_wears_colors == "Subject_Wears_Colors"
column_admits_gang == "Subject_Admits_Gang"
column_race == "Subject_Race_ID"
column_zip == "address_zip"
column_date == "Subject_Create_Date"
columns_to_track == <<"Subject_Armed", "Subject_Felon", "Subject_Probation">>

Scripts == {"colors", "gang_colors", "race", "heatmap", "escalation"}

\* the columns a script requires of the loaded frame
required_columns(s) ==
    CASE s \in {"colors", "gang_colors"} -> {column_wears_colors, column_admits_gang}
      [] s = "race" -> {column_race, column_admits_gang}
      [] s = "heatmap" -> {column_zip, column_race}
      [] s = "escalation" -> {column_date} \cup SeqToSet(columns_to_track)

\* ------------------------------------------------------------------ inputs
sBlack == <<"B", "l", "a", "c", "k">>
sWhite == <<"W", "h", "i", "t", "e">>
sHispanic == <<"H", "i", "s", "p", "a", "n", "i", "c">>
sMultiracial == <<"M", "u", "l", "t", "i", "r", "a", "c", "i", "a", "l">>
s2010 == <<"2", "0", "1", "0">>
s2011 == <<"2", "0", "1", "1">>
Date(y) == [t |-> "date", v |-> y]

\* Cells a spreadsheet can hold in each column (an empty cell is read as NaN).
BinaryCells == {NaN, Str(sY), Str(sN), Str(sNULL), Str(<<"n", "u", "l", "l">>),
                Str(<<>>), Str(<<" ", "y", " ">>), Str(<<"N", "o">>)}
RaceCells == {NaN, Str(sBlack), Str(<<"W", "h", "i", "t", "e", " ">>),
              Str(<<"n", "u", "l", "l">>), Str(<<>>)}
GeoRaceCells == {NaN, Str(sBlack), Str(<<"W", "h", "i", "t", "e", " ">>)}
ZipCells == {NaN, Num(<<"6", "0", "6", "0", "1", ".", "0">>),
             Str(<<" ", "6", "0", "6", "0", "8", "-", "1">>), Str(<<"6", "0", "6">>)}
DateCells == {NaN, Date(s2010), Date(s2011)}

FileCells(s, col) ==
    CASE col \in {column_wears_colors, column_admits_gang} -> BinaryCells
      [] col = column_race -> IF s = "heatmap" THEN GeoRaceCells ELSE RaceCells
      [] col = column_zip -> ZipCells
      [] col = column_date -> DateCells
      [] col = "Subject_Armed" -> {NaN, Str(sN)}
      [] col = "Subject_Felon" -> {Str(<<>>), Str(sNULL)}
      [] col = "Subject_Probation" -> {Str(<<" ">>), Str(sY)}

\* The label domain of the generated sample data of each script.
SampleCells(s, col) ==
    CASE s = "colors" /\ col = column_wears_colors -> {Str(sY), None}
      [] s = "colors" /\ col = column_admits_gang -> {Str(sY), Str(sNULL), None}
      [] s = "gang_colors" -> {Str(sY), Str(sNULL), Str(sN)}
      [] s = "race" /\ col = column_race ->
            {Str(sBlack), Str(sWhite), Str(sHispanic), Str(sMultiracial), None}
      [] s = "race" /\ col = column_admits_gang -> {Str(sY), Str(sNULL), None}
      [] s = "heatmap" /\ col = column_zip ->
            {Num(<<"6", "0", "6", "0", "1">>), Num(<<"6", "0", "6", "2", "0">>)}
      [] s = "heatmap" /\ col = column_race -> {Str(sBlack), Str(sHispanic), Str(sWhite)}
      [] s = "escalation" /\ col = column_date -> {Date(s2010), Date(s2011)}
      [] s = "escalation" /\ col # column_date -> {Str(sY), None}

\* rows over the columns cols with r[c] drawn from Cells(c)
RowsOver(cols, cells) ==
    {r \in [cols -> UNION {cells[c] : c \in cols}] : \A c \in cols : r[c] \in cells[c]}

SeqsUpTo(S, n) == UNION {[1..k -> S] : k \in 0..n}

\* what is found at file_path: nothing, something pd.read_excel cannot read,
\* or a sheet with all the required columns or all but one of them
Sources(s, n) ==
    {[status |-> "absent", columns |-> {}, rows |-> <<>>],
     [status |-> "unreadable", columns |-> {}, rows |-> <<>>]}
    \cup UNION {
        {[status |-> "present", columns |-> cols, rows |-> rows] :
            rows \in SeqsUpTo(RowsOver(cols, [c \in cols |-> FileCells(s, c)]), n)} :
        cols \in {required_columns(s)} \cup {required_columns(s) \ {c} : c \in required_columns(s)}}

\* the scripts that build a contingency table with pd.crosstab and chart it
CrosstabScripts == {"colors", "gang_colors", "race"}

\* sheets of these scripts with all the required columns and few labels
OrderCells(col) ==
    IF col = column_race THEN {NaN, Str(sWhite), Str(sBlack)} ELSE {NaN, Str(sY), Str(sN)}

OrderSources(s, n) ==
    {[status |-> "absent", columns |-> {}, rows |-> <<>>]}
    \cup {[status |-> "present", columns |-> required_columns(s), rows |-> rows] :
            rows \in SeqsUpTo(RowsOver(required_columns(s),
                                       [c \in required_columns(s) |-> OrderCells(c)]), n)}

\* rows of the generated sample frame (data_size is 500 or 5000 in the scripts)
SampleSize == 2

Samples(s) == [1..SampleSize -> RowsOver(required_columns(s), [c \in required_columns(s) |-> SampleCells(s, c)])]

\* ------------------------------------------------------------------- state
VARIABLES
    script,      \* which of the five scripts runs
    source,      \* what is found at file_path
    pc,          \* "load", "check", "clean", "aggregate", "legend", "render",
                 \* "done", "exited" (by exit()), "crashed" (uncaught exception)
    loaded,      \* the data frame as the loader produced it
    df,          \* the data frame
    table,       \* frequency_table / contingency_table / race_zip_counts
    map_data,    \* heatmap.py: one record per ZIP code
    trends_df,   \* escalation.py: the trend table
    diag,        \* what was printed, in order
    artifact,    \* a chart was shown or index.html was saved
    exit_code,   \* the status the process ends with
    ranges,      \* heatmap.py: the five (lo, hi) tiers of the legend
    rerun        \* the frame a second run generates, the source still absent

vars == <<script, source, pc, loaded, df, table, map_data, trends_df, diag, artifact,
          exit_code, ranges, rerun>>

EmptyTrends == [index |-> <<>>, Total_Records |-> <<>>, Count |-> <<>>, Percent |-> <<>>]

Msg(kind) == [kind |-> kind, expected |-> {}, available |-> {}]

\* the start of a script, its source aside
Start ==
    /\ pc = "load"
    /\ loaded = EmptyFrame
    /\ df = EmptyFrame
    /\ table = EmptyTable
    /\ map_data = <<>>
    /\ trends_df = EmptyTrends
    /\ diag = IF script = "gang_colors" THEN <<>> ELSE <<Msg("attempt")>>
    /\ artifact = FALSE
    /\ exit_code = 0
    /\ ranges = <<>>
    /\ rerun = EmptyFrame

InitOf(S, n) ==
    /\ script \in S
    /\ source \in Sources(script, n)
    /\ Start

InitOrder ==
    /\ script \in CrosstabScripts
    /\ source \in OrderSources(script, MaxRows)
    /\ Start

Init == InitOf(Scripts, MaxRowsAll)

\* ------------------------------------------------------------------ loader
\* pd.read_excel(file_path[, parse_dates=[column_date]]) raises for a sheet
\* without the column named in parse_dates
ReadRaises ==
    \/ source.status = "unreadable"
    \/ source.status = "present" /\ script = "escalation" /\ column_date \notin source.columns

\* exit(): SystemExit with no status
Exit(msgs) ==
    /\ pc' = "exited"
    /\ diag' = diag \o msgs
    /\ exit_code' = 0
    /\ UNCHANGED <<script, source, loaded, df, table, map_data, trends_df,
                   artifact, ranges, rerun>>

\* the try block succeeds
ReadOk ==
    /\ pc = "load"
    /\ source.status = "present"
    /\ ~ReadRaises
    /\ df' = [columns |-> source.columns, rows |-> source.rows]
    /\ loaded' = df'
    /\ diag' = IF script = "gang_colors" THEN Append(diag, Msg("loaded")) ELSE diag
    /\ pc' = "check"
    /\ UNCHANGED <<script, source, table, map_data, trends_df,
                   artifact, exit_code, ranges, rerun>>

\* escalation.py builds dates as a DatetimeIndex (Timestamp + TimedeltaIndex)
\* and generate_binary_trend reads dates.dt, which only a Series has: the
\* AttributeError is raised inside the except block and nothing catches it
SampleRaises == script = "escalation"

\* an uncaught exception: traceback, status 1
Crash(msgs) ==
    /\ pc' = "crashed"
    /\ diag' = diag \o msgs
    /\ exit_code' = 1
    /\ UNCHANGED <<script, source, loaded, df, table, map_data, trends_df,
                   artifact, ranges, rerun>>

\* except FileNotFoundError: generated sample data
ReadNotFound ==
    /\ pc = "load"
    /\ source.status = "absent"
    /\ IF SampleRaises
       THEN Crash(<<Msg("not_found"), Msg("sample")>>)
       ELSE /\ \E rows \in Samples(script) :
                  df' = [columns |-> required_columns(script), rows |-> rows]
            /\ loaded' = df'
            /\ diag' = diag \o (IF script = "gang_colors" THEN <<Msg("not_found")>>
                                ELSE <<Msg("not_found"), Msg("sample")>>)
            /\ pc' = "check"
            /\ UNCHANGED <<script, source, table, map_data, trends_df,
                           artifact, exit_code, ranges, rerun>>

\* except Exception: report and exit
ReadError ==
    /\ pc = "load"
    /\ source.status # "absent"
    /\ ReadRaises
    /\ Exit(<<Msg("unexpected")>>)

\* the check with "and" in place of "or": every required column is missing
MissingAllRequired == \A c \in required_columns(script) : c \notin df.columns

\* "a required column is not in df.columns"
MissingRequired == \E c \in required_columns(script) : c \notin df.columns

\* the required-column check after loading
CheckColumns ==
    /\ pc = "check"
    /\ IF MissingRequired
       THEN Exit(<<[kind |-> "schema",
                    expected |-> IF script = "escalation"
                                 THEN required_columns(script) \ df.columns
                                 ELSE required_columns(script),
                    available |-> df.columns]>>)
       ELSE /\ pc' = "clean"
            /\ diag' = IF script = "gang_colors" THEN diag ELSE Append(diag, Msg("loaded"))
            /\ UNCHANGED <<script, source, loaded, df, table, map_data, trends_df,
                           artifact, exit_code, ranges, rerun>>

\* the scripts that call np.random.seed before generating the sample:
\* colors.py (42), race.py (43), heatmap.py (42), escalation.py (45);
\* gang_colors.py draws from the generator as the interpreter started it
Seeded == {"colors", "race", "heatmap", "escalation"}

\* the same script run once more with the source still absent: a seeded
\* generator repeats its draws, an unseeded one starts from fresh entropy
RunAgain ==
    /\ pc = "done"
    /\ source.status = "absent"
    /\ rerun = EmptyFrame
    /\ \E rows \in Samples(script) :
          /\ script \in Seeded => rows = loaded.rows
          /\ rerun' = [columns |-> required_columns(script), rows |-> rows]
    /\ UNCHANGED <<script, source, pc, loaded, df, table, map_data, trends_df, diag,
                   artifact, exit_code, ranges>>

\* --------------------------------------------------------------- colors.py
\* .fillna('N').replace('NULL', 'N')
CleanColorsCell(c) == Replace(FillNa(c, sN), sNULL, sN)

\* Series.isin(['Y', 'N'])
IsYN(c) == c \in {Str(sY), Str(sN)}

\* colors.py, Data Cleaning and Preparation, of the frame d
CleanedColors(d) ==
    LET d1 == WithColumn(d, column_wears_colors,
              [i \in 1..Len(d.rows) |-> CleanColorsCell(d.rows[i][column_wears_colors])])
        d2 == WithColumn(d1, column_admits_gang,
              [i \in 1..Len(d1.rows) |-> CleanColorsCell(d1.rows[i][column_admits_gang])])
        keep == {i \in 1..Len(d2.rows) :
                   IsYN(d2.rows[i][column_wears_colors]) /\ IsYN(d2.rows[i][column_admits_gang])}
    IN [columns |-> d2.columns, rows |-> KeepRows(d2.rows, keep)]

CleanColors ==
    /\ pc = "clean"
    /\ script = "colors"
    /\ df' = CleanedColors(df)
    /\ pc' = "aggregate"
    /\ UNCHANGED <<script, source, loaded, table, map_data, trends_df, diag,
                   artifact, exit_code, ranges, rerun>>

\* colors.py, frequency_table of the cleaned frame d
TableColors(d) ==
    LET t1 == Reindex(Crosstab(d, column_wears_colors, column_admits_gang),
                      <<Str(sN), Str(sY)>>, 0)
    IN IF {Str(sN), Str(sY)} \subseteq SeqToSet(t1.columns)
       THEN SelectColumns(t1, <<Str(sN), Str(sY)>>)
       ELSE t1

AggregateColors ==
    /\ pc = "aggregate"
    /\ script = "colors"
    /\ table' = TableColors(df)
    /\ pc' = "render"
    /\ UNCHANGED <<script, source, loaded, df, map_data, trends_df, diag,
                   artifact, exit_code, ranges, rerun>>

\* ---------------------------------------------------------- gang_colors.py
ReplaceAll3(c) == Replace(Replace(Replace(c, sNULL, sN), sNAN, sN), sNA, sN)

standardize_column(c) ==
    LET standardized == Str(StrStrip(StrUpper(AsTypeStr(c).v)))
        replaced == FillNa(ReplaceAll3(standardized), sN)
    IN IF replaced # Str(sY) THEN Str(sN) ELSE replaced

\* gang_colors.py, the two status columns added to the frame d
CleanedGangColors(d) ==
    LET d1 == WithColumn(d, "Wears_Colors_Status",
              [i \in 1..Len(d.rows) |-> standardize_column(d.rows[i][column_wears_colors])])
    IN WithColumn(d1, "Admits_Gang_Status",
              [i \in 1..Len(d1.rows) |-> standardize_column(d1.rows[i][column_admits_gang])])

CleanGangColors ==
    /\ pc = "clean"
    /\ script = "gang_colors"
    /\ df' = CleanedGangColors(df)
    /\ pc' = "aggregate"
    /\ UNCHANGED <<script, source, loaded, table, map_data, trends_df, diag,
                   artifact, exit_code, ranges, rerun>>

\* gang_colors.py, contingency_table of the cleaned frame d
TableGangColors(d) == Crosstab(d, "Wears_Colors_Status", "Admits_Gang_Status")

AggregateGangColors ==
    /\ pc = "aggregate"
    /\ script = "gang_colors"
    /\ table' = TableGangColors(df)
    /\ pc' = "render"
    /\ UNCHANGED <<script, source, loaded, df, map_data, trends_df, diag,
                   artifact, exit_code, ranges, rerun>>

\* ----------------------------------------------------------------- race.py
\* .astype(str).str.strip().str.replace('NULL', label, case=False)
\* .fillna(label).replace('nan', label)
CleanLabel(c, label) ==
    Replace(FillNa(Str(StrReplaceNoCase(StrStrip(AsTypeStr(c).v), sNULL, label)), label),
            snan, label)

\* race.py, Data Cleaning and Preparation, of the frame d
CleanedRace(d) ==
    LET d1 == WithColumn(d, column_race,
              [i \in 1..Len(d.rows) |-> CleanLabel(d.rows[i][column_race], sUnknown)])
    IN WithColumn(d1, column_admits_gang,
              [i \in 1..Len(d1.rows) |-> CleanLabel(d1.rows[i][column_admits_gang], sN)])

CleanRace ==
    /\ pc = "clean"
    /\ script = "race"
    /\ df' = CleanedRace(df)
    /\ pc' = "aggregate"
    /\ UNCHANGED <<script, source, loaded, table, map_data, trends_df, diag,
                   artifact, exit_code, ranges, rerun>>

\* race.py, frequency_table of the cleaned frame d
TableRace(d) ==
    LET t0 == Crosstab(d, column_race, column_admits_gang)
        t1 == IF Str(sN) \notin SeqToSet(t0.columns) THEN SetColumn(t0, Str(sN), 0) ELSE t0
        t2 == IF Str(sY) \notin SeqToSet(t1.columns) THEN SetColumn(t1, Str(sY), 0) ELSE t1
    IN SelectColumns(t2, <<Str(sN), Str(sY)>>)

AggregateRace ==
    /\ pc = "aggregate"
    /\ script = "race"
    /\ table' = TableRace(df)
    /\ pc' = "render"
    /\ UNCHANGED <<script, source, loaded, df, map_data, trends_df, diag,
                   artifact, exit_code, ranges, rerun>>

\* -------------------------------------------------------------- heatmap.py
\* .astype(str).str.replace(r'\..*', '', regex=True).str.strip().str[:5]
CleanZip(c) == Str(StrPrefix(StrStrip(StrCutAtDot(AsTypeStr(c).v)), 5))

CleanHeatmap ==
    /\ pc = "clean"
    /\ script = "heatmap"
    /\ LET d1 == WithColumn(df, column_zip,
              [i \in 1..Len(df.rows) |-> CleanZip(df.rows[i][column_zip])])
           keep == {i \in 1..Len(d1.rows) : Len(d1.rows[i][column_zip].v) = 5}
           d2 == [columns |-> d1.columns, rows |-> KeepRows(d1.rows, keep)]
       IN df' = WithColumn(d2, column_race,
              [i \in 1..Len(d2.rows) |-> CleanLabel(d2.rows[i][column_race], sUnknown)])
    /\ pc' = "aggregate"
    /\ UNCHANGED <<script, source, loaded, table, map_data, trends_df, diag,
                   artifact, exit_code, ranges, rerun>>

\* the row's largest count, where sum(axis=1) adds the counts up
RowLargest(t, r) ==
    LET j == CHOOSE j \in 1..Len(t.columns) :
                 \A k \in 1..Len(t.columns) :
                    t.counts[<<r, t.columns[k]>>] <= t.counts[<<r, t.columns[j]>>]
    IN t.counts[<<r, t.columns[j]>>]

\* t.sum(axis=1) for the row r
RowSum(t, r) == SumSeq([j \in 1..Len(t.columns) |-> t.counts[<<r, t.columns[j]>>]])

\* a quotient num/den, kept exact
Ratio(num, den) == [num |-> num, den |-> den]
RatLeq(a, b) == a.num * b.den <= b.num * a.den

\* race_zip_counts.div(race_zip_counts.sum(axis=1), axis=0) * 100
race_zip_percentage(t, r, c) == Ratio(t.counts[<<r, c>>] * 100, RowSum(t, r))

\* the last column holding the row's maximum, where idxmax gives the first
IdxMaxLast(t, r) ==
    LET P(j) == race_zip_percentage(t, r, t.columns[j])
        j == CHOOSE j \in 1..Len(t.columns) :
                 /\ \A k \in 1..Len(t.columns) : RatLeq(P(k), P(j))
                 /\ \A k \in (j + 1)..Len(t.columns) : ~RatLeq(P(j), P(k))
    IN t.columns[j]

\* idxmax(axis=1): the first column holding the row's maximum
IdxMax(t, r) ==
    LET P(j) == race_zip_percentage(t, r, t.columns[j])
        j == CHOOSE j \in 1..Len(t.columns) :
                 /\ \A k \in 1..Len(t.columns) : RatLeq(P(k), P(j))
                 /\ \A k \in 1..(j - 1) : ~RatLeq(P(j), P(k))
    IN t.columns[j]

\* max(axis=1)
RowMax(t, r) == race_zip_percentage(t, r, IdxMax(t, r))

AggregateHeatmap ==
    /\ pc = "aggregate"
    /\ script = "heatmap"
    /\ LET race_zip_counts == Crosstab(df, column_zip, column_race)
           all == [i \in 1..Len(race_zip_counts.index) |->
                     [address_zip |-> race_zip_counts.index[i],
                      Dominant_Race |-> IdxMax(race_zip_counts, race_zip_counts.index[i]),
                      Dominant_Percentage |-> RowMax(race_zip_counts, race_zip_counts.index[i]),
                      Total_Records |-> RowSum(race_zip_counts, race_zip_counts.index[i])]]
       IN /\ table' = race_zip_counts
          /\ map_data' = KeepRows(all, {i \in 1..Len(all) :
                                          all[i].address_zip \in Values(df, column_zip)})
    /\ pc' = "legend"
    /\ UNCHANGED <<script, source, loaded, df, trends_df, diag,
                   artifact, exit_code, ranges, rerun>>

\* map_data['Total_Records'].max() of a map_data with at least one code
max_records(m) ==
    LET k == CHOOSE k \in 1..Len(m) :
                 \A j \in 1..Len(m) : m[j].Total_Records <= m[k].Total_Records
    IN m[k].Total_Records

\* the five (lo, hi) tiers chosen for the largest count mr
ranges_for(mr) ==
    IF mr <= 10 THEN <<<<1, 1>>, <<2, 2>>, <<3, 4>>, <<5, 7>>, <<8, mr>>>>
    ELSE IF mr <= 50 THEN <<<<1, 2>>, <<3, 5>>, <<6, 10>>, <<11, 20>>, <<21, mr>>>>
    ELSE IF mr <= 100 THEN <<<<1, 3>>, <<4, 8>>, <<9, 15>>, <<16, 30>>, <<31, mr>>>>
    ELSE IF mr <= 500 THEN <<<<1, 5>>, <<6, 15>>, <<16, 30>>, <<31, 60>>, <<61, mr>>>>
    ELSE <<<<1, 10>>, <<11, 25>>, <<26, 50>>, <<51, 100>>, <<101, mr>>>>

\* the tiers for map_data: the max() of no codes is NaN, every comparison with
\* NaN is false and the last branch is taken
ranges_of(m) ==
    IF m = <<>>
    THEN <<<<1, 10>>, <<11, 25>>, <<26, 50>>, <<51, 100>>, <<101, NaN>>>>
    ELSE ranges_for(max_records(m))

\* the first tier with lo < records <= hi, where the script tests lo <= records
get_logical_color_above(records, rs) ==
    LET hits == {i \in 1..Len(rs) : rs[i][1] < records /\ records <= rs[i][2]}
    IN IF hits = {} THEN 1 ELSE CHOOSE i \in hits : \A j \in hits : i <= j

\* def get_logical_color(records), for the tiers rs
get_logical_color(records, rs) ==
    LET hits == {i \in 1..Len(rs) : rs[i][1] <= records /\ records <= rs[i][2]}
    IN IF hits = {} THEN 1 ELSE CHOOSE i \in hits : \A j \in hits : i <= j

\* the legend tiers and map_data['Color_Scale']
LegendHeatmap ==
    /\ pc = "legend"
    /\ script = "heatmap"
    /\ ranges' = ranges_of(map_data)
    /\ map_data' = [k \in 1..Len(map_data) |->
                      [address_zip |-> map_data[k].address_zip,
                       Dominant_Race |-> map_data[k].Dominant_Race,
                       Dominant_Percentage |-> map_data[k].Dominant_Percentage,
                       Total_Records |-> map_data[k].Total_Records,
                       Color_Scale |-> get_logical_color(map_data[k].Total_Records,
                                                         ranges_of(map_data))]]
    /\ pc' = "render"
    /\ UNCHANGED <<script, source, loaded, df, table, trends_df, diag,
                   artifact, exit_code, rerun>>

\* ----------------------------------------------------------- escalation.py
\* .dt.year: NaT gives NaN
Year(c) == IF c.t = "date" THEN Num(c.v) ELSE NaN

CleanEscalation ==
    /\ pc = "clean"
    /\ script = "escalation"
    /\ df' = WithColumn(df, "Year",
              [i \in 1..Len(df.rows) |-> Year(df.rows[i][column_date])])
    /\ pc' = "aggregate"
    /\ UNCHANGED <<script, source, loaded, table, map_data, trends_df, diag,
                   artifact, exit_code, ranges, rerun>>

\* a size for every year of the range, the empty years included
GroupSizeAllYears(rows, col) ==
    [k \in {Num(s2010), Num(s2011)} |-> Cardinality({i \in 1..Len(rows) : rows[i][col] = k})]

\* rows.groupby(col).size(): the groups of the values that are not NaN
GroupSize(rows, col) ==
    [k \in {rows[i][col] : i \in {j \in 1..Len(rows) : ~IsNa(rows[j][col])}} |->
        Cardinality({i \in 1..Len(rows) : rows[i][col] = k})]

\* flagged only when the value is "Y", as the binary normalizers decide
FlaggedOnlyY(c) == c = Str(sY)

\* df[col].notna() & (df[col].astype(str).str.strip() != '')
Flagged(c) == ~IsNa(c) /\ StrStrip(AsTypeStr(c).v) # <<>>

AggregateEscalation ==
    /\ pc = "aggregate"
    /\ script = "escalation"
    /\ LET total_records_per_year == GroupSize(df.rows, "Year")
           years == DOMAIN total_records_per_year
           flagged_count(col) ==
               GroupSize(KeepRows(df.rows, {i \in 1..Len(df.rows) : Flagged(df.rows[i][col])}),
                         "Year")
           \* merge(how='left').fillna(0)
           merged(col) == [y \in years |-> IF y \in DOMAIN flagged_count(col)
                                           THEN flagged_count(col)[y] ELSE 0]
       IN trends_df' =
            [index |-> SortLabels(years),
             Total_Records |-> total_records_per_year,
             Count |-> [col \in SeqToSet(columns_to_track) |-> merged(col)],
             Percent |-> [col \in SeqToSet(columns_to_track) |->
                            [y \in years |->
                               Ratio(merged(col)[y] * 100, total_records_per_year[y])]]]
    /\ pc' = "render"
    /\ UNCHANGED <<script, source, loaded, df, table, map_data, diag,
                   artifact, exit_code, ranges, rerun>>

\* --------------------------------------------------------------- presenter
\* plt.show() / m.save(OUTPUT_MAP_FILE)
Render ==
    /\ pc = "render"
    /\ artifact' = TRUE
    /\ diag' = IF script = "heatmap" THEN Append(diag, Msg("map_created")) ELSE diag
    /\ pc' = "done"
    /\ UNCHANGED <<script, source, loaded, df, table, map_data, trends_df,
                   exit_code, ranges, rerun>>

\* ---------------------------------------------------------- specifications
Next ==
    \/ ReadOk \/ ReadNotFound \/ ReadError \/ CheckColumns
    \/ CleanColors \/ AggregateColors
    \/ CleanGangColors \/ AggregateGangColors
    \/ CleanRace \/ AggregateRace
    \/ CleanHeatmap \/ AggregateHeatmap \/ LegendHeatmap
    \/ CleanEscalation \/ AggregateEscalation
    \/ Render

\* every script, small datasets
Spec == Init /\ [][Next]_vars

\* the three scripts that chart a contingency table
NextOrder ==
    ReadOk \/ ReadNotFound \/ CheckColumns \/ CleanColors \/ AggregateColors
    \/ CleanGangColors \/ AggregateGangColors \/ CleanRace \/ AggregateRace \/ Render
SpecOrder == InitOrder /\ [][NextOrder]_vars

\* heatmap.py from the geo aggregate on, for totals up to MaxTotal: one code
\* holds the largest total, the other one an edge of a tier or the same total;
\* the records behind the totals are left out
TierEdges(mr) == {ranges_for(mr)[i][j] : i \in 1..5, j \in 1..2} \cap 1..mr

GeoEntry(zip, total) ==
    [address_zip |-> Str(zip),
     Dominant_Race |-> Str(sBlack),
     Dominant_Percentage |-> Ratio(total * 100, total),
     Total_Records |-> total]

GeoAggregates ==
    UNION {{<<GeoEntry(<<"6", "0", "6", "0", "1">>, mr)>>}
           \cup UNION {{<<GeoEntry(<<"6", "0", "6", "0", "1">>, mr),
                           GeoEntry(<<"6", "0", "6", "2", "0">>, v)>>,
                         <<GeoEntry(<<"6", "0", "6", "0", "1">>, v),
                           GeoEntry(<<"6", "0", "6", "2", "0">>, mr)>>} : v \in TierEdges(mr)} :
           mr \in 1..MaxTotal}

InitTiers ==
    /\ script = "heatmap"
    /\ source = [status |-> "present", columns |-> required_columns("heatmap"), rows |-> <<>>]
    /\ pc = "legend"
    /\ loaded = [columns |-> required_columns("heatmap"), rows |-> <<>>]
    /\ df = loaded
    /\ table = EmptyTable
    /\ map_data \in GeoAggregates
    /\ trends_df = EmptyTrends
    /\ diag = <<Msg("attempt"), Msg("loaded")>>
    /\ artifact = FALSE
    /\ exit_code = 0
    /\ ranges = <<>>
    /\ rerun = EmptyFrame

NextTiers == LegendHeatmap \/ Render
SpecTiers == InitTiers /\ [][NextTiers]_vars

\* two runs of a script
NextRerun == Next \/ RunAgain
SpecRerun == Init /\ [][NextRerun]_vars

NextColors ==
    ReadOk \/ ReadNotFound \/ ReadError \/ CheckColumns \/ CleanColors \/ AggregateColors \/ Render
SpecColors == InitOf({"colors"}, MaxRows) /\ [][NextColors]_vars

NextGangColors ==
    \/ ReadOk \/ ReadNotFound \/ ReadError \/ CheckColumns
    \/ CleanGangColors \/ AggregateGangColors \/ Render
SpecGangColors == InitOf({"gang_colors"}, MaxRows) /\ [][NextGangColors]_vars

NextRace ==
    ReadOk \/ ReadNotFound \/ ReadError \/ CheckColumns \/ CleanRace \/ AggregateRace \/ Render
SpecRace == InitOf({"race"}, MaxRows) /\ [][NextRace]_vars

NextHeatmap ==
    ReadOk \/ ReadNotFound \/ ReadError \/ CheckColumns
    \/ CleanHeatmap \/ AggregateHeatmap \/ LegendHeatmap \/ Render
SpecHeatmap == InitOf({"heatmap"}, MaxRowsGeo) /\ [][NextHeatmap]_vars

NextEscalation ==
    \/ ReadOk \/ ReadNotFound \/ ReadError \/ CheckColumns
    \/ CleanEscalation \/ AggregateEscalation \/ Render
SpecEscalation == InitOf({"escalation"}, MaxRows) /\ [][NextEscalation]_vars

\* ------------------------------------------------------------------ claims
AfterClean == pc \in {"aggregate", "legend", "render", "done"}
AfterAggregate == pc \in {"legend", "render", "done"}
YN == {Str(sY), Str(sN)}

\* the values of a loaded column that are present, trimmed
OriginalCategories(col) ==
    {Str(StrStrip(AsTypeStr(c).v)) : c \in {x \in Values(loaded, col) : ~IsNa(x)}}

\* C1 (normalization closure): once a script has cleaned its columns, every
\* value of a binary column is "Y" or "N", and every value of the race column
\* is one of the loaded (trimmed) categories or "Unknown".
C1_NormalizationClosure ==
    AfterClean =>
        /\ script = "colors" =>
              Values(df, column_wears_colors) \cup Values(df, column_admits_gang) \subseteq YN
        /\ script = "gang_colors" =>
              Values(df, "Wears_Colors_Status") \cup Values(df, "Admits_Gang_Status") \subseteq YN
        /\ script = "race" =>
              /\ Values(df, column_admits_gang) \subseteq YN
              /\ Values(df, column_race) \subseteq OriginalCategories(column_race) \cup {Str(sUnknown)}
        /\ script = "heatmap" =>
              Values(df, column_race) \subseteq OriginalCategories(column_race) \cup {Str(sUnknown)}

\* the label the claims give a value of a binary column: "Y" when the text,
\* trimmed and case-folded, is Y, and "N" for anything else
Affirmative(c) == c.t = "str" /\ StrUpper(StrStrip(c.v)) = sY
ExpectedYN(c) == IF Affirmative(c) THEN Str(sY) ELSE Str(sN)

\* the count a table holds for a pair of labels (0 when it has no such slot)
Slot(t, r, c) == IF <<r, c>> \in DOMAIN t.counts THEN t.counts[<<r, c>>] ELSE 0

\* the loaded records a table should count under the labels r (rows) and c (columns)
ExpectedPairs(r, c) ==
    Cardinality({i \in 1..Len(loaded.rows) :
                   /\ ExpectedYN(loaded.rows[i][column_wears_colors]) = r
                   /\ ExpectedYN(loaded.rows[i][column_admits_gang]) = c})

\* the loaded records of race.py a table should count in the column c
ExpectedAdmits(c) ==
    Cardinality({i \in 1..Len(loaded.rows) : ExpectedYN(loaded.rows[i][column_admits_gang]) = c})

\* the total of the column c of a table
ColumnTotal(t, c) == SumSeq([i \in 1..Len(t.index) |-> Slot(t, t.index[i], c)])

\* C2 (non-affirmative collapse): in colors.py, gang_colors.py and race.py a
\* value that is Y after trim and case-fold is counted under "Y", and every
\* other value under "N", in the finished contingency table.
C2_NonAffirmativeCollapse ==
    AfterAggregate =>
        /\ script \in {"colors", "gang_colors"} =>
              \A r \in YN, c \in YN : Slot(table, r, c) = ExpectedPairs(r, c)
        /\ script = "race" => \A c \in YN : ColumnTotal(table, c) = ExpectedAdmits(c)

\* a null marker: absent, the empty string, or "NULL" in any letter case
NullMarker(c) == IsNa(c) \/ (c.t = "str" /\ (c.v = <<>> \/ StrUpper(c.v) = sNULL))

TableSum(t) ==
    SumSeq([k \in 1..(Len(t.index) * Len(t.columns)) |->
              t.counts[<<t.index[((k - 1) \div Len(t.columns)) + 1],
                         t.columns[((k - 1) % Len(t.columns)) + 1]>>]])

\* C4 (count conservation): the cells of the finished contingency table sum
\* to the number of records that left the cleaning step (in colors.py: that
\* passed its filter); none is lost on the way to the table.
C4_CountConservation ==
    (AfterAggregate /\ script \in {"colors", "gang_colors", "race"}) =>
        TableSum(table) = Len(df.rows)

\* C5 (fixed category slots): a binary dimension of the finished table lists
\* "N" then "Y", whether or not both occur in the data.
C5_FixedCategorySlots ==
    AfterAggregate =>
        /\ script \in {"colors", "gang_colors"} =>
              /\ table.index = <<Str(sN), Str(sY)>>
              /\ table.columns = <<Str(sN), Str(sY)>>
        /\ script = "race" => table.columns = <<Str(sN), Str(sY)>>

\* the records of the cleaned frame of heatmap.py with ZIP z and race r
GroupCount(z, r) ==
    Cardinality({i \in 1..Len(df.rows) :
                   df.rows[i][column_zip] = z /\ df.rows[i][column_race] = r})

\* the records of the cleaned frame of heatmap.py with ZIP z
GroupTotal(z) == Cardinality({i \in 1..Len(df.rows) : df.rows[i][column_zip] = z})

\* C6 (dominant category): map_data has one entry per ZIP code of the cleaned
\* frame; its Dominant_Race has a count that no other race of that ZIP
\* exceeds, its Dominant_Percentage is 100 x that count / the ZIP's total,
\* and among races tied for the maximum it is the first in sorted order.
C6_DominantCategory ==
    (script = "heatmap" /\ AfterAggregate) =>
        /\ {map_data[k].address_zip : k \in 1..Len(map_data)} = Values(df, column_zip)
        /\ \A k \in 1..Len(map_data) :
              LET z == map_data[k].address_zip
                  dom == map_data[k].Dominant_Race
                  pct == map_data[k].Dominant_Percentage
              IN /\ dom \in Values(df, column_race)
                 /\ \A r \in Values(df, column_race) : GroupCount(z, r) <= GroupCount(z, dom)
                 /\ pct.den > 0
                 /\ pct.num * GroupTotal(z) = 100 * GroupCount(z, dom) * pct.den
                 /\ \A r \in Values(df, column_race) :
                       GroupCount(z, r) = GroupCount(z, dom) => (r = dom \/ StrLess(dom.v, r.v))

\* a finished run of heatmap.py with a ZIP code in which two races tie for the maximum
C6_Witness ==
    /\ script = "heatmap"
    /\ pc = "done"
    /\ \E k \in 1..Len(map_data) :
          \E r \in Values(df, column_race) :
             /\ r # map_data[k].Dominant_Race
             /\ GroupCount(map_data[k].address_zip, r) =
                   GroupCount(map_data[k].address_zip, map_data[k].Dominant_Race)

\* C7 (percentage bounds): every year of the trend table has at least one
\* record, and each flag's count lies between 0 and the year's total, so each
\* percentage lies between 0 and 100 and has a non-zero denominator.
C7_PercentageBounds ==
    (script = "escalation" /\ AfterAggregate) =>
        /\ SeqToSet(trends_df.index) = DOMAIN trends_df.Total_Records
        /\ \A y \in SeqToSet(trends_df.index) :
              /\ trends_df.Total_Records[y] >= 1
              /\ \A col \in SeqToSet(columns_to_track) :
                    /\ 0 <= trends_df.Count[col][y]
                    /\ trends_df.Count[col][y] <= trends_df.Total_Records[y]
                    /\ trends_df.Percent[col][y].den >= 1
                    /\ 0 <= trends_df.Percent[col][y].num
                    /\ trends_df.Percent[col][y].num <= 100 * trends_df.Percent[col][y].den

\* a finished run of escalation.py with a year in which some, not all, records are flagged
C7_Witness ==
    /\ script = "escalation"
    /\ pc = "done"
    /\ \E y \in SeqToSet(trends_df.index), col \in SeqToSet(columns_to_track) :
          /\ 0 < trends_df.Count[col][y]
          /\ trends_df.Count[col][y] < trends_df.Total_Records[y]

\* a value that is present and has a character other than a blank
PresentNonEmpty(c) == c.t \notin {"nan", "none"} /\ \E j \in 1..Len(c.v) : c.v[j] # " "

\* the loaded records of the year y
RecordsOfYear(y) ==
    {i \in 1..Len(loaded.rows) :
        loaded.rows[i][column_date].t = "date" /\ Num(loaded.rows[i][column_date].v) = y}

\* C8 (temporal flagged policy): a flag's count for a year is the number of
\* that year's records whose value in the flag column is present and not
\* blank, whatever the value is.
C8_FlaggedPolicy ==
    (script = "escalation" /\ AfterAggregate) =>
        \A col \in SeqToSet(columns_to_track), y \in SeqToSet(trends_df.index) :
            trends_df.Count[col][y] =
               Cardinality({i \in RecordsOfYear(y) : PresentNonEmpty(loaded.rows[i][col])})

\* a finished run of escalation.py with a year holding a record whose flag is
\* "N" or "NULL", which is counted, and a record whose flag is absent or blank
C8_Witness ==
    /\ script = "escalation"
    /\ pc = "done"
    /\ \E y \in SeqToSet(trends_df.index), col \in SeqToSet(columns_to_track) :
          /\ \E i \in RecordsOfYear(y) : loaded.rows[i][col] \in {Str(sN), Str(sNULL)}
          /\ \E i \in RecordsOfYear(y) : ~PresentNonEmpty(loaded.rows[i][col])
          /\ trends_df.Count[col][y] >= 1

\* loading ends in a fatal condition: the source cannot be read, or lacks a required column
Fatal ==
    \/ source.status = "unreadable"
    \/ source.status = "present" /\ \E c \in required_columns(script) : c \notin source.columns

\* C9 (early fatal detection): a run whose loading is fatal never gets past
\* the required-column check: the frame is never cleaned, no table is built
\* and no artifact is produced.
C9_EarlyFatalDetection ==
    Fatal =>
        /\ pc \in {"load", "check", "exited"}
        /\ df \in {EmptyFrame, [columns |-> source.columns, rows |-> source.rows]}
        /\ table = EmptyTable
        /\ map_data = <<>>
        /\ trends_df = EmptyTrends
        /\ artifact = FALSE

\* a run that has exited on a sheet lacking a required column
C9_Witness ==
    /\ source.status = "present"
    /\ Fatal
    /\ pc = "exited"
    /\ Len(source.rows) > 0

\* C10 (schema-error reporting): a run that exits on a readable sheet lacking
\* a required column has printed, last, the schema diagnostic naming the
\* missing columns and the available ones.
C10_SchemaErrorReporting ==
    (source.status = "present" /\ Fatal /\ pc = "exited") =>
        /\ diag[Len(diag)].kind = "schema"
        /\ required_columns(script) \ source.columns \subseteq diag[Len(diag)].expected
        /\ diag[Len(diag)].available = source.columns

\* C11 (synthetic-fallback shape): with the source absent the run neither
\* exits nor crashes; the generated frame has exactly the required columns,
\* its values are labels or null markers, and no schema error is reported.
C11_SyntheticFallbackShape ==
    source.status = "absent" =>
        /\ pc \notin {"exited", "crashed"}
        /\ pc # "load" =>
              /\ loaded.columns = required_columns(script)
              /\ \A i \in 1..Len(loaded.rows) :
                    \A c \in loaded.columns \ {column_date, column_zip} :
                       loaded.rows[i][c].t = "str" \/ NullMarker(loaded.rows[i][c])
        /\ \A k \in 1..Len(diag) : diag[k].kind # "schema"

\* the cleaned postal code of the i-th record read
CleanedCode(i) == CleanZip(loaded.rows[i][column_zip])
Surviving == {i \in 1..Len(loaded.rows) : Len(CleanedCode(i).v) = 5}

\* C12 (geo aggregate keys and totals): every key of map_data is a string of
\* 5 characters, a record whose cleaned code is not 5 characters long is in
\* no group, Total_Records of a key is the number of surviving records with
\* that code, and the totals add up to the number of surviving records.
C12_GeoKeysAndTotals ==
    (script = "heatmap" /\ AfterAggregate) =>
        /\ \A k \in 1..Len(map_data) :
              /\ map_data[k].address_zip.t = "str"
              /\ Len(map_data[k].address_zip.v) = 5
              /\ map_data[k].Total_Records =
                    Cardinality({i \in Surviving : CleanedCode(i) = map_data[k].address_zip})
        /\ \A i \in (1..Len(loaded.rows)) \ Surviving :
              \A k \in 1..Len(map_data) : map_data[k].address_zip # CleanedCode(i)
        /\ SumSeq([k \in 1..Len(map_data) |-> map_data[k].Total_Records])
              = Cardinality(Surviving)
        /\ Len(df.rows) = Cardinality(Surviving)

\* a missing ZIP was dropped and a code holds records of two races
C12_Witness ==
    /\ script = "heatmap"
    /\ pc = "done"
    /\ \E i \in 1..Len(loaded.rows) : loaded.rows[i][column_zip] = NaN
    /\ \E k \in 1..Len(map_data) :
          /\ map_data[k].Total_Records = 2
          /\ Cardinality({c \in SeqToSet(table.columns) :
                            table.counts[<<map_data[k].address_zip, c>>] > 0}) = 2

\* C13 (reproducible synthetic fallback): a second run of the same script
\* with the source absent generates the dataset the first run generated.
C13_ReproducibleFallback ==
    (source.status = "absent" /\ rerun # EmptyFrame) => rerun = loaded

\* the contingency table the script s charts for the frame d as read
TableOf(s, d) ==
    CASE s = "colors" -> TableColors(CleanedColors(d))
      [] s = "gang_colors" -> TableGangColors(CleanedGangColors(d))
      [] s = "race" -> TableRace(CleanedRace(d))

\* the rows q in another order
Reorderings(q) ==
    {[i \in 1..Len(q) |-> q[f[i]]] :
        f \in {g \in [1..Len(q) -> 1..Len(q)] : \A a, b \in 1..Len(q) : g[a] = g[b] => a = b}}

\* C14 (deterministic ordering): in colors.py, gang_colors.py and race.py the
\* table of any reordering of the rows read has the same row labels, the
\* same column labels, in the same order, and the same counts.
C14_DeterministicOrdering ==
    (script \in CrosstabScripts /\ AfterAggregate) =>
        \A q \in Reorderings(loaded.rows) :
           LET t == TableOf(script, [columns |-> loaded.columns, rows |-> q])
           IN /\ t.index = table.index
              /\ t.columns = table.columns
              /\ t.counts = table.counts

\* race.py read White before Black and charts Black before White
C14_Witness ==
    /\ script = "race"
    /\ pc = "done"
    /\ Len(loaded.rows) >= 2
    /\ loaded.rows[1][column_race] = Str(sWhite)
    /\ loaded.rows[2][column_race] = Str(sBlack)
    /\ table.index = <<Str(sBlack), Str(sWhite)>>
    /\ table.counts[<<Str(sBlack), Str(sN)>>] = 1

\* C15 (process exit behaviour): a run ended by a fatal condition has
\* printed a diagnostic last and ends with a status other than 0.
C15_ProcessExitBehavior ==
    (Fatal /\ pc = "exited") =>
        /\ Len(diag) > 0
        /\ diag[Len(diag)].kind \in {"schema", "unexpected"}
        /\ exit_code # 0

\* the legend has been built and at least one code is on the map
AfterLegend == script = "heatmap" /\ pc \in {"render", "done"} /\ map_data # <<>>

\* C16 (legend tier well-formedness): the five tiers have lo <= hi, each
\* starts one above the end of the tier before it, the first starts at 1 and
\* the last ends at max_records.
C16_TierWellFormedness ==
    AfterLegend =>
        /\ Len(ranges) = 5
        /\ \A i \in 1..5 : ranges[i][1] <= ranges[i][2]
        /\ \A i \in 2..5 : ranges[i][1] = ranges[i - 1][2] + 1
        /\ ranges[1][1] = 1
        /\ ranges[5][2] = max_records(map_data)

\* the tier i of the legend contains the count v
InTier(i, v) == ranges[i][1] <= v /\ v <= ranges[i][2]

\* C17 (tier assignment): Color_Scale of every code is the index, in 1..5, of
\* the tier that contains its Total_Records; every count in 1..max_records is
\* in exactly one tier, which get_logical_color finds; Color_Scale does not
\* decrease as Total_Records grows, and the code with max_records has the
\* highest tier assigned.
C17_TierAssignment ==
    AfterLegend =>
        /\ \A k \in 1..Len(map_data) :
              /\ map_data[k].Color_Scale \in 1..5
              /\ InTier(map_data[k].Color_Scale, map_data[k].Total_Records)
        /\ \A v \in 1..max_records(map_data) :
              /\ Cardinality({i \in 1..5 : InTier(i, v)}) = 1
              /\ InTier(get_logical_color(v, ranges), v)
        /\ \A j, k \in 1..Len(map_data) :
              map_data[j].Total_Records <= map_data[k].Total_Records
                 => map_data[j].Color_Scale <= map_data[k].Color_Scale
        /\ \A j, k \in 1..Len(map_data) :
              map_data[k].Total_Records = max_records(map_data)
                 => map_data[j].Color_Scale <= map_data[k].Color_Scale

\* a map with a code of more than 500 records, in the fifth tier, and a code
\* in the second tier
C17_Witness ==
    /\ AfterLegend
    /\ pc = "done"
    /\ \E k \in 1..Len(map_data) :
          map_data[k].Total_Records > 500 /\ map_data[k].Color_Scale = 5
    /\ \E k \in 1..Len(map_data) :
          map_data[k].Total_Records = 11 /\ map_data[k].Color_Scale = 2

====
